---- MODULE Spec2Model ----
(***************************************************************************)
(* Model of src/main.rs: an ESP32 firmware that joins a wifi network,      *)
(* opens an MQTT session, and renders every text message received on one   *)
(* topic onto a 5.83" e-paper panel.  Two threads: main (startup, then the *)
(* poll/render loop) and the listener thread spawned by setup_mqtt_client. *)
(***************************************************************************)
EXTENDS Integers, Sequences, FiniteSets, TLC

VARIABLES
    mpc,            \* main thread: the statement it is about to execute
    err,            \* the step whose error main returned with ("none" while running)
    wifiOps,        \* wifi calls performed by configure_wifi, in order
    calls,          \* panel-side calls made by main, in order (Epd5in83::new, clear, paint, update_frame, display_frame)
    cycleOps,       \* what the current loop iteration has done since its Delay
    display,        \* Display5in83 framebuffer: one entry per 10x20 character cell of the top text row
    epdRam,         \* the panel controller's memory, written by update_frame
    epdImage,       \* the image latched on the panel, committed by display_frame
    message,        \* the String bound by `if let Ok(message)` in the loop
    relay,          \* mpsc channel queue
    senderAlive,    \* the Sender<String> has not been dropped
    receiverAlive,  \* the Receiver<String> exists and has not been dropped
    lpc,            \* listener thread: "none" | "next" | "handle" | "exit" | "panicked"
    ev,             \* the event bound by `while let Some(msg)`
    echo,           \* the greeting was published and the broker has not yet sent it back
    conn,           \* the MQTT session: "none" | "open" | "closed"
    subscribed,     \* the broker has the client's subscription to MQTT_TOPIC_NAME
    published,      \* client.publish of the greeting returned Ok
    evLog,          \* events taken by the listener, in order
    fwdLog,         \* arguments of the listener's sender.send calls, in order
    sentLog,        \* messages that entered the relay, in order
    recvLog,        \* messages returned by recv_timeout, in order
    shownLog,       \* messages committed to the panel by a successful display_frame, in order
    nEvents,        \* number of events the session has produced, the greeting aside
    certs,          \* the three included certificate buffers
    x509            \* the three converted certificates (<<>> before conversion)

vars == <<mpc, err, wifiOps, calls, cycleOps, display, epdRam, epdImage, message,
          relay, senderAlive, receiverAlive, lpc, ev, echo, conn, subscribed,
          published, evLog, fwdLog, sentLog, recvLog, shownLog, nEvents, certs, x509>>

(***************************************************************************)
(* Bounds of the model.                                                    *)
(***************************************************************************)
\* number of events the session produces in one run, the greeting aside
MaxEvents == 2
\* character cells of the framebuffer's top row that are modelled
PanelCols == 3
\* longest certificate buffer given to convert_certificate
MaxCertLen == 3

(***************************************************************************)
(* Sequence helpers.                                                       *)
(***************************************************************************)
IsPrefix(s, t) == Len(s) <= Len(t) /\ SubSeq(t, 1, Len(s)) = s

\* Result<String, FromUtf8Error>
Ok(s) == [ok |-> TRUE, val |-> s]
Err == [ok |-> FALSE, val |-> <<>>]

(***************************************************************************)
(* String::from_utf8 (line 181).  A String is modelled by its sequence of  *)
(* chars (code points); a byte is an integer 0..255.                       *)
(***************************************************************************)
IsCont(b) == b >= 128 /\ b <= 191

\* width of the UTF-8 sequence starting with byte b, 0 when b cannot start one
Utf8Width(b) ==
    IF b < 128 THEN 1
    ELSE IF b >= 194 /\ b <= 223 THEN 2
    ELSE IF b >= 224 /\ b <= 239 THEN 3
    ELSE IF b >= 240 /\ b <= 244 THEN 4
    ELSE 0

\* the second byte's admissible range depends on the first byte
SecondOk(b1, b2) ==
    CASE b1 = 224 -> b2 >= 160 /\ b2 <= 191
      [] b1 = 237 -> b2 >= 128 /\ b2 <= 159
      [] b1 = 240 -> b2 >= 144 /\ b2 <= 191
      [] b1 = 244 -> b2 >= 128 /\ b2 <= 143
      [] OTHER    -> IsCont(b2)

\* the char whose UTF-8 sequence starts at bytes[i]
CodePoint(bytes, i) ==
    LET b1 == bytes[i]
        w  == Utf8Width(b1)
    IN CASE w = 1 -> b1
         [] w = 2 -> (b1 - 192) * 64 + (bytes[i + 1] - 128)
         [] w = 3 -> (b1 - 224) * 4096 + (bytes[i + 1] - 128) * 64
                     + (bytes[i + 2] - 128)
         [] w = 4 -> (b1 - 240) * 262144 + (bytes[i + 1] - 128) * 4096
                     + (bytes[i + 2] - 128) * 64 + (bytes[i + 3] - 128)

\* bytes[i] is where the validation wants it: a lead byte followed by the
\* continuation bytes of its width, or a continuation byte of the sequence
\* started by a lead byte up to three places before it
ByteOk(bytes, i) ==
    IF IsCont(bytes[i])
    THEN \E k \in 1..3 :
            /\ i - k >= 1
            /\ Utf8Width(bytes[i - k]) > k
            /\ \A j \in 1..(k - 1) : IsCont(bytes[i - j])
    ELSE LET w == Utf8Width(bytes[i])
         IN /\ w > 0
            /\ i + w - 1 <= Len(bytes)
            /\ w >= 2 => SecondOk(bytes[i], bytes[i + 1])
            /\ \A j \in 2..(w - 1) : IsCont(bytes[i + j])

IsChar(c) == c >= 0

from_utf8(bytes) ==
    IF \A i \in 1..Len(bytes) : ByteOk(bytes, i)
    THEN Ok(SelectSeq([i \in 1..Len(bytes) |->
                          IF Utf8Width(bytes[i]) > 0 THEN CodePoint(bytes, i) ELSE -1],
                      IsChar))
    ELSE Err

(***************************************************************************)
(* convert_certificate (lines 215-230).                                    *)
(***************************************************************************)
RECURSIVE pem_until_nul(_)
\* the view X509::pem_until_nul takes of a slice: up to and including its first NUL
pem_until_nul(slice) ==
    IF slice = <<>> THEN <<>>
    ELSE IF slice[1] = 0 THEN <<0>>
    ELSE <<slice[1]>> \o pem_until_nul(Tail(slice))

\* mutant of convert_certificate: the NUL is not appended
convert_certificate_no_nul(certificate_bytes) ==
    pem_until_nul(certificate_bytes)

convert_certificate(certificate_bytes) ==
    pem_until_nul(Append(certificate_bytes, 0))

(***************************************************************************)
(* The framebuffer and draw_text (lines 232-242).                          *)
(***************************************************************************)
\* a cell cleared to Color::White
White == 0

\* FONT_10X20 is an ASCII font: chars outside ' '..'\x7f' are drawn as '?'
Glyph(ch) == IF ch >= 32 /\ ch <= 127 THEN ch ELSE 63

\* display.clear(Color::White)
clear == [c \in 1..PanelCols |-> White]

\* draw_text(display, text, x, y), x and y counted in character cells: one glyph
\* per char from cell x of row y on; what falls outside the framebuffer is not drawn
draw_text(disp, text, x, y) ==
    [c \in 1..PanelCols |->
        IF y = 0 /\ c - x >= 1 /\ c - x <= Len(text)
        THEN Glyph(text[c - x])
        ELSE disp[c]]

(***************************************************************************)
(* Program constants and the inputs of the model.                          *)
(***************************************************************************)
\* "topic/sdk/test/rust"
MQTT_TOPIC_NAME ==
    <<116, 111, 112, 105, 99, 47, 115, 100, 107, 47, 116, 101, 115, 116, 47,
      114, 117, 115, 116>>

\* format!("Hello from {}!", MQTT_TOPIC_NAME).as_bytes()
GreetingBytes ==
    <<72, 101, 108, 108, 111, 32, 102, 114, 111, 109, 32>> \o MQTT_TOPIC_NAME \o <<33>>

\* the payloads external publishers send: empty, "e-acute" (two bytes), and
\* an ASCII byte followed by 0xFF
Payloads == {<<>>, <<195, 169>>, <<65, 255>>}

\* events of the session's stream
EvErr == [kind |-> "Err", data |-> <<>>]
EvOther == [kind |-> "Other", data |-> <<>>]
EvReceived(data) == [kind |-> "Received", data |-> data]
NoEvent == [kind |-> "none", data |-> <<>>]

\* the bytes a certificate buffer may hold: NUL, '-' and 'M'
CertBytes == {0, 45, 77}

RECURSIVE SeqsUpTo(_, _)
SeqsUpTo(S, n) ==
    IF n = 0 THEN {<<>>}
    ELSE LET shorter == SeqsUpTo(S, n - 1)
         IN shorter \cup {Append(s, b) : s \in {t \in shorter : Len(t) = n - 1}, b \in S}

CertBuffers == SeqsUpTo(CertBytes, MaxCertLen)

\* stand-ins for the three included PEM files
IncludedCerts == << <<45, 77, 45>>, <<45, 77>>, <<77, 45>> >>

\* the image a prior run left latched on the panel
PriorImage == [c \in 1..PanelCols |-> 80]

\* a record of one panel-side call of main
Call(op, text, buffer, ok) ==
    [op |-> op, text |-> text, at |-> <<0, 0>>, buffer |-> buffer, ok |-> ok]

(***************************************************************************)
(* Initial state: main is about to run, nothing is constructed.            *)
(***************************************************************************)
InitProgram ==
    /\ mpc = "start"
    /\ err = "none"
    /\ wifiOps = <<>>
    /\ calls = <<>>
    /\ cycleOps = <<>>
    /\ display = clear
    /\ epdRam = PriorImage
    /\ epdImage = PriorImage
    /\ message = <<>>
    /\ relay = <<>>
    /\ senderAlive = FALSE
    /\ receiverAlive = FALSE
    /\ lpc = "none"
    /\ ev = NoEvent
    /\ echo = FALSE
    /\ conn = "none"
    /\ subscribed = FALSE
    /\ published = FALSE
    /\ evLog = <<>>
    /\ fwdLog = <<>>
    /\ sentLog = <<>>
    /\ recvLog = <<>>
    /\ shownLog = <<>>
    /\ nEvents = 0
    /\ x509 = <<>>

Init ==
    /\ InitProgram
    /\ certs = IncludedCerts

wifiVars == <<wifiOps>>
panelVars == <<calls, display, epdRam, epdImage>>
loopVars == <<cycleOps, message>>
chanVars == <<relay, senderAlive, receiverAlive>>
lisVars == <<lpc, ev>>
sessVars == <<echo, conn, subscribed, published, nEvents>>
logVars == <<evLog, fwdLog, sentLog, recvLog, shownLog>>
certVars == <<certs, x509>>

(***************************************************************************)
(* main returning an error (`?`): its locals are dropped.  The Receiver    *)
(* goes, and with it what the channel still holds; the Sender goes if it   *)
(* was not yet moved into the listener's closure; the client, if built,    *)
(* is dropped, which closes the session.                                   *)
(***************************************************************************)
ReturnErr(step) ==
    /\ mpc' = "aborted"
    /\ err' = step
    /\ receiverAlive' = FALSE
    /\ relay' = <<>>
    /\ senderAlive' = IF lpc = "none" THEN FALSE ELSE senderAlive
    /\ conn' = IF conn = "open" THEN "closed" ELSE conn

(***************************************************************************)
(* main, lines 63-72: peripherals, event loop, NVS, the wifi driver.       *)
(***************************************************************************)
MainTake ==
    /\ mpc = "start"
    /\ \/ /\ mpc' = "set_configuration"
          /\ UNCHANGED <<err, chanVars, conn>>
       \/ ReturnErr("take")
    /\ UNCHANGED <<wifiVars, panelVars, loopVars, lisVars, echo, subscribed,
                   published, nEvents, logVars, certVars>>

(***************************************************************************)
(* configure_wifi, lines 127-144, called at line 74.                       *)
(***************************************************************************)
WifiStep(at, op, next) ==
    /\ mpc = at
    /\ wifiOps' = Append(wifiOps, op)
    /\ \/ /\ mpc' = next
          /\ UNCHANGED <<err, chanVars, conn>>
       \/ ReturnErr(op)
    /\ UNCHANGED <<panelVars, loopVars, lisVars, echo, subscribed,
                   published, nEvents, logVars, certVars>>

set_configuration == WifiStep("set_configuration", "set_configuration", "wifi_start")
wifi_start == WifiStep("wifi_start", "start", "connect")
\* mutant of wifi_connect: configure_wifi returns without wait_netif_up
wifi_connect_no_wait == WifiStep("connect", "connect", "spi")

wifi_connect == WifiStep("connect", "connect", "wait_netif_up")
wait_netif_up == WifiStep("wait_netif_up", "wait_netif_up", "spi")

configure_wifi == set_configuration \/ wifi_start \/ wifi_connect \/ wait_netif_up

(***************************************************************************)
(* main, lines 79-100: framebuffer, pins and the SPI device.               *)
(***************************************************************************)
MainSpi ==
    /\ mpc = "spi"
    /\ \/ /\ mpc' = "epd_new"
          /\ UNCHANGED <<err, chanVars, conn>>
       \/ ReturnErr("spi")
    /\ UNCHANGED <<wifiVars, panelVars, loopVars, lisVars, echo, subscribed,
                   published, nEvents, logVars, certVars>>

\* mutant of EpdNew: the error of the panel's init is discarded
EpdNewUnchecked ==
    /\ mpc = "epd_new"
    /\ \/ /\ calls' = Append(calls, Call("new", <<>>, <<>>, TRUE))
       \/ /\ calls' = Append(calls, Call("new", <<>>, <<>>, FALSE))
    /\ mpc' = "channel"
    /\ UNCHANGED <<err, chanVars, conn>>
    /\ UNCHANGED <<wifiVars, display, epdRam, epdImage, loopVars, lisVars, echo,
                   subscribed, published, nEvents, logVars, certVars>>

(***************************************************************************)
(* main, line 105: Epd5in83::new, the panel's init.                        *)
(***************************************************************************)
EpdNew ==
    /\ mpc = "epd_new"
    /\ \/ /\ calls' = Append(calls, Call("new", <<>>, <<>>, TRUE))
          /\ mpc' = "channel"
          /\ UNCHANGED <<err, chanVars, conn>>
       \/ /\ calls' = Append(calls, Call("new", <<>>, <<>>, FALSE))
          /\ ReturnErr("epd_new")
    /\ UNCHANGED <<wifiVars, display, epdRam, epdImage, loopVars, lisVars, echo,
                   subscribed, published, nEvents, logVars, certVars>>

(***************************************************************************)
(* main, line 110: mpsc::channel.                                          *)
(***************************************************************************)
MainChannel ==
    /\ mpc = "channel"
    /\ mpc' = "mqtt_new"
    /\ relay' = <<>>
    /\ senderAlive' = TRUE
    /\ receiverAlive' = TRUE
    /\ UNCHANGED <<err, wifiVars, panelVars, loopVars, lisVars, sessVars, logVars,
                   certVars>>

(***************************************************************************)
(* setup_mqtt_client, lines 151-167: the three certificates are converted  *)
(* and EspMqttClient::new_with_conn opens the session.                     *)
(***************************************************************************)
MqttNew ==
    /\ mpc = "mqtt_new"
    /\ x509' = [i \in 1..3 |-> convert_certificate(certs[i])]
    /\ \/ /\ mpc' = "spawn"
          /\ conn' = "open"
          /\ UNCHANGED <<err, chanVars>>
       \/ ReturnErr("new_with_conn")
    /\ UNCHANGED <<wifiVars, panelVars, loopVars, lisVars, echo, subscribed,
                   published, nEvents, logVars, certs>>

\* mutant of Spawn: no thread is spawned
SpawnNone ==
    /\ mpc = "spawn"
    /\ mpc' = "subscribe"
    /\ UNCHANGED <<err, wifiVars, panelVars, loopVars, chanVars, lisVars, sessVars,
                   logVars, certVars>>

(***************************************************************************)
(* setup_mqtt_client, line 171: thread::spawn; the closure takes the       *)
(* Sender and the connection.                                              *)
(***************************************************************************)
Spawn ==
    /\ mpc = "spawn"
    /\ mpc' = "subscribe"
    /\ lpc' = "next"
    /\ UNCHANGED <<err, wifiVars, panelVars, loopVars, chanVars, ev, sessVars,
                   logVars, certVars>>

(***************************************************************************)
(* setup_mqtt_client, line 194: client.subscribe.                          *)
(***************************************************************************)
Subscribe ==
    /\ mpc = "subscribe"
    /\ \/ /\ mpc' = "publish"
          /\ subscribed' = (conn = "open")
          /\ UNCHANGED <<err, chanVars, conn>>
       \/ /\ ReturnErr("subscribe")
          /\ UNCHANGED subscribed
    /\ UNCHANGED <<wifiVars, panelVars, loopVars, lisVars, echo, published,
                   nEvents, logVars, certVars>>

(***************************************************************************)
(* setup_mqtt_client, lines 198-212: the greeting is published; the broker *)
(* sends it back on the subscription.  setup_mqtt_client returns the       *)
(* client and main enters its loop.                                        *)
(***************************************************************************)
Publish ==
    /\ mpc = "publish"
    /\ \/ /\ mpc' = "sleep"
          /\ published' = TRUE
          /\ echo' = (conn = "open" /\ subscribed)
          /\ UNCHANGED <<err, chanVars, conn>>
       \/ /\ ReturnErr("publish")
          /\ UNCHANGED <<published, echo>>
    /\ UNCHANGED <<wifiVars, panelVars, loopVars, lisVars, subscribed, nEvents,
                   logVars, certVars>>

(***************************************************************************)
(* The main loop, lines 113-124.                                           *)
(***************************************************************************)
\* line 114: Delay::delay_ms(3000)
Sleep ==
    /\ mpc = "sleep"
    /\ mpc' = "recv"
    /\ cycleOps' = <<>>
    /\ UNCHANGED <<err, wifiVars, panelVars, message, chanVars, lisVars, sessVars,
                   logVars, certVars>>

\* mutant of RecvPick: the channel hands out its newest message
RecvPickLast(queue) == queue[Len(queue)]

\* the message recv_timeout takes from a non-empty channel
RecvPick(queue) == Head(queue)

\* mutant of RecvRest: a receive empties the channel
RecvRestDrain(queue) == <<>>

\* what recv_timeout leaves in the channel
RecvRest(queue) == Tail(queue)

\* mutant of AfterRecvOk: the cycle starts at the paint, without the clear
AfterRecvOkNoClear == "paint"

\* line 117-119: the statement after a received message is bound
AfterRecvOk == "clear"

\* lines 116-117: recv_timeout returns Ok(message)
RecvOk ==
    /\ mpc = "recv"
    /\ relay /= <<>>
    /\ message' = RecvPick(relay)
    /\ relay' = RecvRest(relay)
    /\ recvLog' = Append(recvLog, RecvPick(relay))
    /\ cycleOps' = Append(cycleOps, "recv_ok")
    /\ mpc' = AfterRecvOk
    /\ UNCHANGED <<err, wifiVars, panelVars, senderAlive, receiverAlive, lisVars,
                   sessVars, evLog, fwdLog, sentLog, shownLog, certVars>>

\* mutant of AfterRecvErr: the render cycle runs although nothing was received
AfterRecvErrRender == "clear"

\* lines 117 and 123-124: where the loop goes when recv_timeout returns an Err
AfterRecvErr == "sleep"

\* lines 116-117: recv_timeout returns Err(Timeout): nothing arrived in the window
RecvTimeout ==
    /\ mpc = "recv"
    /\ relay = <<>>
    /\ senderAlive
    /\ cycleOps' = Append(cycleOps, "recv_timeout")
    /\ mpc' = AfterRecvErr
    /\ UNCHANGED <<err, wifiVars, panelVars, message, chanVars, lisVars, sessVars,
                   logVars, certVars>>

\* mutant of RecvDisconnected: the error is returned with `?`
RecvDisconnectedFatal ==
    /\ mpc = "recv"
    /\ relay = <<>>
    /\ ~senderAlive
    /\ cycleOps' = Append(cycleOps, "recv_disconnected")
    /\ ReturnErr("recv_timeout")
    /\ UNCHANGED <<wifiVars, panelVars, message, lisVars, echo, subscribed,
                   published, nEvents, logVars, certVars>>

\* mutant of RecvDisconnected: an empty channel is reported as disconnected
RecvDisconnectedEmpty ==
    /\ mpc = "recv"
    /\ relay = <<>>
    /\ cycleOps' = Append(cycleOps, "recv_disconnected")
    /\ mpc' = AfterRecvErr
    /\ UNCHANGED <<err, wifiVars, panelVars, message, chanVars, lisVars, sessVars,
                   logVars, certVars>>

\* lines 116-117: recv_timeout returns Err(Disconnected): empty and the Sender is gone
RecvDisconnected ==
    /\ mpc = "recv"
    /\ relay = <<>>
    /\ ~senderAlive
    /\ cycleOps' = Append(cycleOps, "recv_disconnected")
    /\ mpc' = AfterRecvErr
    /\ UNCHANGED <<err, wifiVars, panelVars, message, chanVars, lisVars, sessVars,
                   logVars, certVars>>

\* mutant of Clear: the framebuffer is left as the last cycle painted it
ClearSkipped ==
    /\ mpc = "clear"
    /\ calls' = Append(calls, Call("clear", <<>>, <<>>, TRUE))
    /\ cycleOps' = Append(cycleOps, "clear")
    /\ mpc' = "paint"
    /\ UNCHANGED <<err, wifiVars, display, epdRam, epdImage, message, chanVars, lisVars,
                   sessVars, logVars, certVars>>

\* line 119: display.clear(Color::White)?  (its error type is Infallible)
Clear ==
    /\ mpc = "clear"
    /\ display' = clear
    /\ calls' = Append(calls, Call("clear", <<>>, <<>>, TRUE))
    /\ cycleOps' = Append(cycleOps, "clear")
    /\ mpc' = "paint"
    /\ UNCHANGED <<err, wifiVars, epdRam, epdImage, message, chanVars, lisVars,
                   sessVars, logVars, certVars>>

\* mutant of AfterPaint: display_frame is called where update_frame should be
AfterPaintDisplay == "display_frame"

\* lines 120-121: the statement after draw_text
AfterPaint == "update_frame"

\* line 120: draw_text(&mut display, &message, 0, 0)
Paint ==
    /\ mpc = "paint"
    /\ display' = draw_text(display, message, 0, 0)
    /\ calls' = Append(calls, Call("paint", message, <<>>, TRUE))
    /\ cycleOps' = Append(cycleOps, "paint")
    /\ mpc' = AfterPaint
    /\ UNCHANGED <<err, wifiVars, epdRam, epdImage, message, chanVars, lisVars,
                   sessVars, logVars, certVars>>

\* mutant of UpdateFrame: the error of update_frame is discarded
UpdateFrameUnchecked ==
    /\ mpc = "update_frame"
    /\ cycleOps' = Append(cycleOps, "update_frame")
    /\ \/ /\ epdRam' = display
          /\ calls' = Append(calls, Call("update_frame", <<>>, display, TRUE))
       \/ /\ calls' = Append(calls, Call("update_frame", <<>>, display, FALSE))
          /\ UNCHANGED epdRam
    /\ mpc' = "display_frame"
    /\ UNCHANGED <<err, chanVars, conn>>
    /\ UNCHANGED <<wifiVars, display, epdImage, message, lisVars, echo, subscribed,
                   published, nEvents, logVars, certVars>>

\* line 121: epd.update_frame(&mut device, display.buffer(), &mut delay)?
UpdateFrame ==
    /\ mpc = "update_frame"
    /\ cycleOps' = Append(cycleOps, "update_frame")
    /\ \/ /\ epdRam' = display
          /\ calls' = Append(calls, Call("update_frame", <<>>, display, TRUE))
          /\ mpc' = "display_frame"
          /\ UNCHANGED <<err, chanVars, conn>>
       \/ /\ calls' = Append(calls, Call("update_frame", <<>>, display, FALSE))
          /\ ReturnErr("update_frame")
          /\ UNCHANGED epdRam
    /\ UNCHANGED <<wifiVars, display, epdImage, message, lisVars, echo, subscribed,
                   published, nEvents, logVars, certVars>>

\* line 122: epd.display_frame(&mut device, &mut delay)?
DisplayFrame ==
    /\ mpc = "display_frame"
    /\ cycleOps' = Append(cycleOps, "display_frame")
    /\ \/ /\ epdImage' = epdRam
          /\ calls' = Append(calls, Call("display_frame", <<>>, <<>>, TRUE))
          /\ shownLog' = Append(shownLog, message)
          /\ mpc' = "sleep"
          /\ UNCHANGED <<err, chanVars, conn>>
       \/ /\ calls' = Append(calls, Call("display_frame", <<>>, <<>>, FALSE))
          /\ ReturnErr("display_frame")
          /\ UNCHANGED <<epdImage, shownLog>>
    /\ UNCHANGED <<wifiVars, display, epdRam, message, lisVars, echo, subscribed,
                   published, nEvents, evLog, fwdLog, sentLog, recvLog, certVars>>

(***************************************************************************)
(* The listener thread, lines 171-192.                                     *)
(***************************************************************************)
\* line 175: connection.next() returns Some(msg): the session hands the
\* listener its next event
Take(e) ==
    /\ lpc = "next"
    /\ conn = "open"
    /\ ev' = e
    /\ evLog' = Append(evLog, e)
    /\ lpc' = "handle"
    /\ UNCHANGED <<mpc, err, wifiVars, panelVars, loopVars, chanVars, conn, subscribed,
                   published, fwdLog, sentLog, recvLog, shownLog, certVars>>

\* the event is a payload some client published on the subscribed topic
NextReceived ==
    \E p \in Payloads :
        /\ subscribed
        /\ nEvents < MaxEvents
        /\ Take(EvReceived(p))
        /\ nEvents' = nEvents + 1
        /\ UNCHANGED echo

\* the event is the greeting, sent back by the broker
NextGreeting ==
    /\ echo
    /\ Take(EvReceived(GreetingBytes))
    /\ echo' = FALSE
    /\ UNCHANGED nEvents

\* the event is an error
NextError ==
    /\ nEvents < MaxEvents
    /\ Take(EvErr)
    /\ nEvents' = nEvents + 1
    /\ UNCHANGED echo

\* the event is any other one: connected, subscribed, published, ...
NextOther ==
    /\ nEvents < MaxEvents
    /\ Take(EvOther)
    /\ nEvents' = nEvents + 1
    /\ UNCHANGED echo

\* mutant of NextNone: what the channel holds goes with the Sender
NextNoneFlush ==
    /\ lpc = "next"
    /\ conn = "closed"
    /\ lpc' = "exit"
    /\ senderAlive' = FALSE
    /\ relay' = <<>>
    /\ UNCHANGED <<mpc, err, wifiVars, panelVars, loopVars, receiverAlive, ev,
                   sessVars, logVars, certVars>>

\* lines 175 and 191: connection.next() returns None, the session being closed;
\* the loop is left and the closure's Sender is dropped
NextNone ==
    /\ lpc = "next"
    /\ conn = "closed"
    /\ lpc' = "exit"
    /\ senderAlive' = FALSE
    /\ UNCHANGED <<mpc, err, wifiVars, panelVars, loopVars, relay, receiverAlive, ev,
                   sessVars, logVars, certVars>>

ListenerNext == NextReceived \/ NextGreeting \/ NextError \/ NextOther \/ NextNone

\* mutant of Send: the channel is a sync_channel(1), its send waits for room
SendBounded(parsed_string) ==
    /\ receiverAlive => Len(relay) < 1
    /\ fwdLog' = Append(fwdLog, parsed_string)
    /\ IF receiverAlive
       THEN /\ relay' = Append(relay, parsed_string)
            /\ sentLog' = Append(sentLog, parsed_string)
            /\ lpc' = "next"
            /\ UNCHANGED senderAlive
       ELSE /\ lpc' = "panicked"
            /\ senderAlive' = FALSE
            /\ UNCHANGED <<relay, sentLog>>

\* mutant of Send: try_send on a sync_channel(1), which fails when it is full
SendTry(parsed_string) ==
    /\ fwdLog' = Append(fwdLog, parsed_string)
    /\ IF receiverAlive /\ Len(relay) < 1
       THEN /\ relay' = Append(relay, parsed_string)
            /\ sentLog' = Append(sentLog, parsed_string)
            /\ lpc' = "next"
            /\ UNCHANGED senderAlive
       ELSE /\ lpc' = "panicked"
            /\ senderAlive' = FALSE
            /\ UNCHANGED <<relay, sentLog>>

\* line 184: sender.send(parsed_string).unwrap()
Send(parsed_string) ==
    /\ fwdLog' = Append(fwdLog, parsed_string)
    /\ IF receiverAlive
       THEN /\ relay' = Append(relay, parsed_string)
            /\ sentLog' = Append(sentLog, parsed_string)
            /\ lpc' = "next"
            /\ UNCHANGED senderAlive
       ELSE /\ lpc' = "panicked"
            /\ senderAlive' = FALSE
            /\ UNCHANGED <<relay, sentLog>>

\* mutant of Parse: String::from_utf8_lossy, which never fails
ParseLossy(data) == IF from_utf8(data).ok THEN from_utf8(data) ELSE Ok(<<65533>>)

\* mutant of Parse: the bytes are taken for chars, unchecked
ParseUnchecked(data) == Ok(data)

\* lines 181-182: whether the payload is forwarded, and as what
Parse(data) == from_utf8(data)

\* mutant of ListenerHandle: an error event is unwrapped, which panics
ListenerHandleErrFatal ==
    /\ lpc = "handle"
    /\ IF ev.kind = "Received" /\ Parse(ev.data).ok
       THEN Send(Parse(ev.data).val)
       ELSE /\ lpc' = IF ev.kind = "Err" THEN "panicked" ELSE "next"
            /\ senderAlive' = IF ev.kind = "Err" THEN FALSE ELSE senderAlive
            /\ UNCHANGED <<fwdLog, relay, sentLog>>
    /\ UNCHANGED <<mpc, err, wifiVars, panelVars, loopVars, receiverAlive, ev, sessVars,
                   evLog, recvLog, shownLog, certVars>>

\* lines 176-188: the body of the loop for the event taken
ListenerHandle ==
    /\ lpc = "handle"
    /\ IF ev.kind = "Received" /\ Parse(ev.data).ok
       THEN Send(Parse(ev.data).val)
       ELSE /\ lpc' = "next"
            /\ UNCHANGED <<fwdLog, relay, sentLog, senderAlive>>
    /\ UNCHANGED <<mpc, err, wifiVars, panelVars, loopVars, receiverAlive, ev, sessVars,
                   evLog, recvLog, shownLog, certVars>>

(***************************************************************************)
(* The session drops: the stream that connection.next() (line 175) reads   *)
(* ends.                                                                   *)
(***************************************************************************)
SessionDrop ==
    /\ conn = "open"
    /\ conn' = "closed"
    /\ UNCHANGED <<mpc, err, wifiVars, panelVars, loopVars, chanVars, lisVars, echo,
                   subscribed, published, nEvents, logVars, certVars>>

(***************************************************************************)
(* The program.                                                            *)
(***************************************************************************)
Main ==
    \/ MainTake \/ configure_wifi \/ MainSpi \/ EpdNew \/ MainChannel
    \/ MqttNew \/ Spawn \/ Subscribe \/ Publish
    \/ Sleep \/ RecvOk \/ RecvTimeout \/ RecvDisconnected
    \/ Clear \/ Paint \/ UpdateFrame \/ DisplayFrame

Listener == ListenerNext \/ ListenerHandle

Next == Main \/ Listener \/ SessionDrop

Spec == Init /\ [][Next]_vars

\* both threads are scheduled by the RTOS: neither is starved while it can run
FairSpec == Spec /\ WF_vars(Main) /\ WF_vars(Listener)

(***************************************************************************)
(* The certificate transform on arbitrary buffers: main stands at          *)
(* setup_mqtt_client with two of the included buffers drawn from           *)
(* CertBuffers, and MqttNew converts them.                                 *)
(***************************************************************************)
CertInit ==
    /\ mpc = "mqtt_new"
    /\ err = "none"
    /\ wifiOps = <<"set_configuration", "start", "connect", "wait_netif_up">>
    /\ calls = <<Call("new", <<>>, <<>>, TRUE)>>
    /\ cycleOps = <<>>
    /\ display = clear
    /\ epdRam = PriorImage
    /\ epdImage = PriorImage
    /\ message = <<>>
    /\ relay = <<>>
    /\ senderAlive = TRUE
    /\ receiverAlive = TRUE
    /\ lpc = "none"
    /\ ev = NoEvent
    /\ echo = FALSE
    /\ conn = "none"
    /\ subscribed = FALSE
    /\ published = FALSE
    /\ evLog = <<>>
    /\ fwdLog = <<>>
    /\ sentLog = <<>>
    /\ recvLog = <<>>
    /\ shownLog = <<>>
    /\ nEvents = 0
    /\ x509 = <<>>
    /\ certs \in {<<a, b, IncludedCerts[3]>> : a \in CertBuffers, b \in CertBuffers}

CertNext == MqttNew

CertSpec == CertInit /\ [][CertNext]_vars

(***************************************************************************)
(* Properties.                                                             *)
(***************************************************************************)
LoopPcs == {"sleep", "recv", "clear", "paint", "update_frame", "display_frame"}

\* C1. Relay ordering: what main has received is at every moment a prefix of
\* what the listener sent, and while the Receiver exists what was sent and not
\* yet received is exactly what the channel holds, in the order sent: no
\* message is lost, duplicated or overtaken, whatever the interleaving.
C1_RelayOrdering ==
    /\ IsPrefix(recvLog, sentLog)
    /\ receiverAlive => sentLog = recvLog \o relay

\* three different messages were sent and received
C1_Witness ==
    /\ Len(recvLog) = 3
    /\ recvLog[1] /= recvLog[2]
    /\ recvLog[2] /= recvLog[3]
    /\ recvLog[1] /= recvLog[3]

\* the UTF-8 encoding of one char
EncodeChar(c) ==
    IF c < 128 THEN <<c>>
    ELSE IF c < 2048 THEN <<192 + (c \div 64), 128 + (c % 64)>>
    ELSE IF c < 65536
         THEN <<224 + (c \div 4096), 128 + ((c \div 64) % 64), 128 + (c % 64)>>
    ELSE <<240 + (c \div 262144), 128 + ((c \div 4096) % 64),
           128 + ((c \div 64) % 64), 128 + (c % 64)>>

RECURSIVE EncodeUtf8(_)
EncodeUtf8(text) ==
    IF text = <<>> THEN <<>>
    ELSE IF Len(text) = 1 THEN EncodeChar(text[1])
    ELSE LET half == Len(text) \div 2
         IN EncodeUtf8(SubSeq(text, 1, half)) \o EncodeUtf8(SubSeq(text, half + 1, Len(text)))

\* the payloads of the model that are valid UTF-8, by inspection
ValidPayloads == {<<>>, <<195, 169>>, GreetingBytes}

\* C2. Whenever the listener finishes handling a 'message received' event:
\* for a valid UTF-8 payload it makes exactly one sender.send call, with the
\* text whose UTF-8 encoding is the payload, and, the Receiver existing, that
\* text is appended to the relay and the listener goes back to
\* connection.next(); for an invalid payload it makes no send call, the relay
\* is unchanged and the listener goes back to connection.next().
C2_ListenerForward ==
    [][(lpc = "handle" /\ lpc' /= "handle" /\ ev.kind = "Received") =>
        IF ev.data \in ValidPayloads
        THEN /\ Len(fwdLog') = Len(fwdLog) + 1
             /\ SubSeq(fwdLog', 1, Len(fwdLog)) = fwdLog
             /\ EncodeUtf8(fwdLog'[Len(fwdLog')]) = ev.data
             /\ receiverAlive =>
                    /\ relay' = Append(relay, fwdLog'[Len(fwdLog')])
                    /\ lpc' = "next"
        ELSE /\ fwdLog' = fwdLog
             /\ relay' = relay
             /\ sentLog' = sentLog
             /\ lpc' = "next"]_vars

\* an invalid payload was dropped, then the empty payload was forwarded
C2_Witness ==
    /\ Len(evLog) = 2
    /\ evLog[1] = EvReceived(<<65, 255>>)
    /\ evLog[2] = EvReceived(<<>>)
    /\ fwdLog = << <<>> >>
    /\ relay = << <<>> >>
    /\ lpc = "next"

\* C3. The panel's calls: Epd5in83::new is called at most once; update_frame
\* is only called after that one call has succeeded; display_frame is only
\* called right after a successful update_frame of the same loop iteration.
C3_PanelStateMachine ==
    /\ Cardinality({k \in DOMAIN calls : calls[k].op = "new"}) <= 1
    /\ \A k \in DOMAIN calls :
          calls[k].op \in {"update_frame", "display_frame"} =>
             /\ calls[1].op = "new" /\ calls[1].ok
             /\ Cardinality({j \in 1..k : calls[j].op = "new"}) = 1
    /\ \A k \in DOMAIN calls :
          calls[k].op = "display_frame" =>
             k > 1 /\ calls[k - 1].op = "update_frame" /\ calls[k - 1].ok
    /\ \A i \in DOMAIN cycleOps :
          cycleOps[i] = "display_frame" =>
             \E j \in 1..(i - 1) : cycleOps[j] = "update_frame"

\* two render cycles have run to their display_frame
C3_Witness ==
    /\ Len(shownLog) = 2
    /\ Cardinality({k \in DOMAIN calls : calls[k].op = "display_frame"}) = 2
    /\ cycleOps[Len(cycleOps)] = "display_frame"

\* "Hello from topic/sdk/test/rust!": the greeting is ASCII, its chars are its bytes
GreetingText == GreetingBytes

\* C4. End-to-end scenario 1: once main has entered its loop (network up,
\* session open) the greeting has been published, and the first message
\* committed to the panel is the greeting.
C4_GreetingFirst ==
    /\ mpc \in LoopPcs => published
    /\ shownLog /= <<>> => shownLog[1] = GreetingText

\* the panel calls of the current loop iteration
RenderOps == <<"clear", "paint", "update_frame", "display_frame">>

\* C5. Idle poll: while main is at its Delay or in recv_timeout no step changes
\* the framebuffer, the panel or the list of panel calls, and an iteration
\* whose recv_timeout timed out has done nothing but that receive and stands
\* at the Delay again.
C5_IdlePoll ==
    /\ [][(mpc \in {"sleep", "recv"}) =>
            (UNCHANGED <<display, epdRam, epdImage, calls>>)]_vars
    /\ [][(mpc = "recv" /\ mpc' /= "recv" /\ recvLog' = recvLog) =>
            (mpc' = "sleep" /\ UNCHANGED <<display, epdRam, epdImage, calls>>)]_vars
    /\ [](\A i \in DOMAIN cycleOps :
            cycleOps[i] = "recv_timeout" =>
               cycleOps = <<"recv_timeout">> /\ mpc = "sleep")

\* a poll timed out after a message had been displayed: its image is still there
C5_Witness ==
    /\ cycleOps = <<"recv_timeout">>
    /\ mpc = "sleep"
    /\ Len(shownLog) = 1
    /\ epdImage = draw_text(clear, shownLog[1], 0, 0)
    /\ epdImage /= PriorImage

\* the number of panel calls the iteration in progress has made
CycleProgress ==
    CASE mpc = "paint" -> 1
      [] mpc = "update_frame" -> 2
      [] mpc = "display_frame" -> 3
      [] OTHER -> 0

\* C6. Render cycle: after Epd5in83::new the panel calls are, for the 1st, 2nd,
\* ... received message in turn, one clear, one paint of that message at (0,0),
\* one update_frame and one display_frame, in this order; a call is made only
\* after every earlier call has returned Ok; while main runs, every received
\* message but the one being rendered has its four calls; the framebuffer is
\* white right after the clear.
C6_RenderCycle ==
    LET rc == IF calls = <<>> THEN <<>> ELSE Tail(calls)
    IN /\ \A k \in DOMAIN rc :
             LET i == ((k - 1) \div 4) + 1
                 j == ((k - 1) % 4) + 1
             IN /\ i <= Len(recvLog)
                /\ rc[k].op = RenderOps[j]
                /\ j = 2 => rc[k].text = recvLog[i] /\ rc[k].at = <<0, 0>>
                /\ k < Len(rc) => rc[k].ok
       /\ calls /= <<>> => calls[1].op = "new"
       /\ mpc \in LoopPcs =>
             Len(rc) = 4 * (Len(recvLog) - (IF mpc \in {"sleep", "recv"} THEN 0 ELSE 1))
                       + CycleProgress
       /\ mpc = "paint" => display = [c \in 1..PanelCols |-> White]

\* two messages have been rendered, each by its own four calls
C6_Witness ==
    /\ Len(recvLog) = 2
    /\ recvLog[1] /= recvLog[2]
    /\ Len(calls) = 9
    /\ calls[9].op = "display_frame" /\ calls[9].ok
    /\ mpc = "sleep"

\* main returned because a panel call failed
PanelError == err \in {"update_frame", "display_frame"}

ValidTexts ==
    LET valid == SelectSeq(evLog,
                           LAMBDA e : e.kind = "Received" /\ e.data \in ValidPayloads)
    IN [k \in DOMAIN valid |-> from_utf8(valid[k].data).val]

\* the events taken by the listener whose payload is not valid UTF-8
InvalidEvents ==
    SelectSeq(evLog, LAMBDA e : e.kind = "Received" /\ e.data \notin ValidPayloads)

\* C8. End-to-end scenario 3: panel calls are attributable to valid payloads
\* only. The messages received by main are a prefix of the texts of the valid
\* payloads taken by the listener, there are no more render cycles than such
\* payloads, and as long as every payload taken was invalid no panel call but
\* Epd5in83::new has been made, the framebuffer is as constructed and the panel
\* shows the image it showed before; handling an invalid payload changes
\* neither the relay, the framebuffer nor the panel.
C8_InvalidPayloadNoEffect ==
    /\ [](/\ IsPrefix(recvLog, ValidTexts)
          /\ Cardinality({k \in DOMAIN calls : calls[k].op = "clear"}) <= Len(ValidTexts)
          /\ \A k \in DOMAIN calls : calls[k].op = "paint" =>
                \E i \in DOMAIN ValidTexts : calls[k].text = ValidTexts[i]
          /\ ValidTexts = <<>> =>
                /\ \A k \in DOMAIN calls : calls[k].op = "new"
                /\ display = clear
                /\ epdRam = PriorImage
                /\ epdImage = PriorImage)
    /\ [][(lpc = "handle" /\ lpc' /= "handle" /\ ev.kind = "Received"
             /\ ev.data \notin ValidPayloads) =>
            (UNCHANGED <<relay, display, epdRam, epdImage, calls>>)]_vars

\* after a message was displayed an invalid payload was handled, and main has
\* polled since: the displayed image is still that message's
C8_Witness ==
    /\ Len(evLog) >= 2
    /\ evLog[Len(evLog)].kind = "Received"
    /\ evLog[Len(evLog)].data = <<65, 255>>
    /\ lpc = "next"
    /\ Len(shownLog) = 1
    /\ cycleOps = <<"recv_timeout">>
    /\ epdImage = draw_text(clear, shownLog[1], 0, 0)
    /\ Cardinality({k \in DOMAIN calls : calls[k].op = "clear"}) = 1

\* the index of the first NUL of a buffer, Len + 1 when it has none
FirstNul(B) ==
    IF \E k \in DOMAIN B : B[k] = 0
    THEN CHOOSE k \in DOMAIN B : B[k] = 0 /\ \A j \in 1..(k - 1) : B[j] /= 0
    ELSE Len(B) + 1

\* C9, as stated: for every buffer the converted certificate is the buffer
\* followed by one zero byte, and it ends in exactly one zero byte.
C9_AsStated ==
    x509 /= <<>> =>
        \A i \in DOMAIN x509 :
            /\ x509[i] = Append(certs[i], 0)
            /\ Len(certs[i]) >= 1 => certs[i][Len(certs[i])] /= 0

\* C9, amended. The converted certificate is the bytes of the buffer that
\* precede its first zero byte, unchanged and in order, followed by exactly one
\* zero byte, which is the only zero byte of the result; for a buffer without
\* a zero byte this is the whole buffer plus the terminator, of length
\* len(B) + 1.
C9_CertificateTransform ==
    x509 /= <<>> =>
        \A i \in DOMAIN x509 :
            LET B == certs[i]
                r == x509[i]
            IN /\ Len(r) = FirstNul(B)
               /\ r[Len(r)] = 0
               /\ \A k \in 1..(Len(r) - 1) : r[k] = B[k] /\ r[k] /= 0
               /\ (\A k \in DOMAIN B : B[k] /= 0) =>
                     Len(r) = Len(B) + 1 /\ SubSeq(r, 1, Len(B)) = B

\* a buffer without a zero byte and a buffer with one inside were converted
C9_Witness ==
    /\ x509 /= <<>>
    /\ certs[1] = <<45, 77, 45>>
    /\ x509[1] = <<45, 77, 45, 0>>
    /\ certs[2] = <<45, 0, 77>>
    /\ x509[2] = <<45, 0>>

\* C10, as stated: once the listener has left its loop nothing more is
\* forwarded, and main, from its Delay or its recv_timeout on, only cycles
\* between these two: it does not return, makes no panel call and changes
\* neither framebuffer nor panel any more.
C10_AsStated ==
    [][(lpc = "exit") =>
        /\ lpc' = "exit"
        /\ UNCHANGED <<fwdLog, sentLog>>
        /\ (mpc \in {"sleep", "recv"}) =>
              /\ mpc' \in {"sleep", "recv"}
              /\ UNCHANGED <<display, epdRam, epdImage, calls>>]_vars

\* C10, amended. Session drop: the listener leaves its loop only when the
\* session is closed, and then its Sender is gone and
\* nothing more is forwarded. Main does not return on that account: a
\* recv_timeout that reports the Sender gone sends it back to the Delay like
\* a timeout. What the relay still held when the listener left is received
\* and rendered first; once the relay is empty main only alternates between
\* the Delay and recv_timeout, never touches framebuffer or panel again and
\* never returns. Scheduled fairly, the listener does leave once the session
\* is closed, and main keeps polling for ever.
C10_SessionDrop ==
    /\ [](lpc = "exit" => conn = "closed" /\ ~senderAlive)
    /\ [][(lpc = "exit") => (lpc' = "exit" /\ UNCHANGED <<fwdLog, sentLog>>)]_vars
    /\ [][(mpc = "recv" /\ mpc' /= "recv" /\ relay = <<>> /\ ~senderAlive) =>
            (mpc' = "sleep" /\ err' = "none"
             /\ UNCHANGED <<display, epdRam, epdImage, calls>>)]_vars
    /\ [][(lpc = "exit" /\ relay = <<>> /\ mpc \in {"sleep", "recv"}) =>
            (/\ mpc' \in {"sleep", "recv"}
             /\ relay' = <<>>
             /\ UNCHANGED <<display, epdRam, epdImage, calls, err>>)]_vars
    /\ (conn = "closed" /\ lpc /= "none") ~> (lpc \in {"exit", "panicked"})
    /\ (lpc = "exit" /\ relay = <<>> /\ mpc = "sleep") ~> (mpc = "recv")
    /\ (lpc = "exit" /\ relay = <<>> /\ mpc = "recv")
          ~> (mpc = "sleep" /\ cycleOps = <<"recv_disconnected">>)

\* the session dropped after the bootstrap, the listener left, and main's poll
\* found the Sender gone
C10_Witness ==
    /\ published
    /\ conn = "closed"
    /\ lpc = "exit"
    /\ mpc = "sleep"
    /\ cycleOps = <<"recv_disconnected">>
    /\ Len(shownLog) = 1


\* the panel call main made last
LastCall == calls[Len(calls)]

\* C11. Render-cycle-fatal: a failing update_frame or display_frame is the
\* last panel call of the run and main has returned with its error: after a
\* failing update_frame no display_frame follows, and once main has returned
\* it receives nothing, calls nothing and changes neither framebuffer nor
\* panel any more. Main leaves its loop in no other way: from a statement of
\* the loop it goes to a statement of the loop, or returns the error of the
\* update_frame or display_frame it was at.
C11_RenderCycleFatal ==
    /\ [](\A k \in DOMAIN calls :
             (calls[k].op \in {"update_frame", "display_frame"} /\ ~calls[k].ok) =>
                (k = Len(calls) /\ mpc = "aborted" /\ err = calls[k].op))
    /\ [](PanelError =>
             (mpc = "aborted" /\ calls /= <<>> /\ ~LastCall.ok /\ LastCall.op = err))
    /\ [][(mpc = "aborted") =>
            (UNCHANGED <<mpc, err, calls, cycleOps, message, recvLog, shownLog,
                         display, epdRam, epdImage, relay>>)]_vars
    /\ [][(mpc \in LoopPcs /\ mpc' \notin LoopPcs) =>
            (/\ mpc' = "aborted"
             /\ mpc \in {"update_frame", "display_frame"}
             /\ err' = mpc
             /\ calls' = Append(calls, Call(mpc, <<>>,
                                  IF mpc = "update_frame" THEN display ELSE <<>>, FALSE)))]_vars

\* the second render cycle ended in a failing update_frame: the panel still
\* shows the first message, and the listener has since found the Receiver gone
C11_Witness ==
    /\ err = "update_frame"
    /\ mpc = "aborted"
    /\ Len(recvLog) = 2
    /\ Len(shownLog) = 1
    /\ LastCall.op = "update_frame" /\ ~LastCall.ok
    /\ epdImage = draw_text(clear, shownLog[1], 0, 0)
    /\ lpc = "panicked"

\* the steps of the startup, by the name of the error main returns from them
StartupSteps ==
    {"take", "set_configuration", "start", "connect", "wait_netif_up", "spi",
     "epd_new", "new_with_conn", "subscribe", "publish"}

\* C12. Startup-fatal errors display nothing: when a step of the startup has
\* failed main has returned, the only panel call of the run is at most the
\* Epd5in83::new, nothing was received or rendered, the framebuffer is as
\* constructed and the panel holds the image of the prior run; a failing
\* Epd5in83::new is the only panel call of its run; and nothing of this
\* changes afterwards: no step is tried again, no session is opened again.
C12_StartupFatal ==
    /\ [](err \in StartupSteps =>
             /\ mpc = "aborted"
             /\ Len(calls) <= 1
             /\ \A k \in DOMAIN calls : calls[k].op = "new"
             /\ cycleOps = <<>> /\ recvLog = <<>> /\ shownLog = <<>>
             /\ display = clear
             /\ epdRam = PriorImage
             /\ epdImage = PriorImage)
    /\ [](\A k \in DOMAIN calls :
             (calls[k].op = "new" /\ ~calls[k].ok) => (err = "epd_new" /\ Len(calls) = 1))
    /\ [][(err \in StartupSteps) =>
            (UNCHANGED <<mpc, err, wifiOps, calls, cycleOps, display, epdRam, epdImage,
                         conn, subscribed, published, recvLog, shownLog>>)]_vars

\* the greeting publish failed after the listener had already forwarded a
\* message into the relay: it is never rendered
C12_Witness ==
    /\ err = "publish"
    /\ mpc = "aborted"
    /\ sentLog /= <<>>
    /\ calls = <<Call("new", <<>>, <<>>, TRUE)>>
    /\ epdImage = PriorImage


\* the statements of main before the thread::spawn, the spawn included
PreSpawnPcs ==
    {"start", "set_configuration", "wifi_start", "connect", "wait_netif_up", "spi",
     "epd_new", "channel", "mqtt_new", "spawn"}

\* the statements of setup_mqtt_client after the thread::spawn
PostSpawnPcs == {"subscribe", "publish"}

\* C13, as stated: the listener does not exist while main is in
\* setup_mqtt_client, and it takes no step while main is there.
C13_AsStated ==
    /\ [](mpc \in {"mqtt_new", "spawn"} \cup PostSpawnPcs => lpc = "none")
    /\ [][(lpc /= "none" /\ lpc' /= lpc) => (mpc \notin PostSpawnPcs)]_vars

\* C13, amended. Startup sequencing: there are two contexts, main and the
\* listener thread, and every step is a step of one of them. configure_wifi,
\* the panel's init and the opening of the session run on main before the
\* listener exists; the listener is spawned once, by setup_mqtt_client, after
\* the session is open and before the subscribe and the greeting publish, so
\* that it exists, and may take steps, while main subscribes and publishes;
\* main enters its loop only after the greeting publish has returned.
C13_StartupSequencing ==
    /\ [](mpc \in PreSpawnPcs => (lpc = "none" /\ evLog = <<>>))
    /\ [](lpc /= "none" =>
             /\ wifiOps = <<"set_configuration", "start", "connect", "wait_netif_up">>
             /\ calls /= <<>> /\ calls[1] = Call("new", <<>>, <<>>, TRUE)
             /\ conn \in {"open", "closed"}
             /\ Len(x509) = 3)
    /\ [](mpc \in PostSpawnPcs \cup LoopPcs => lpc /= "none")
    /\ [](mpc \in LoopPcs => published)
    /\ [](mpc \in PreSpawnPcs \cup PostSpawnPcs => (calls \in {<<>>, <<Call("new", <<>>, <<>>, TRUE)>>}
                                                     /\ cycleOps = <<>>))
    /\ [][(lpc = "none" /\ lpc' /= "none") =>
            (mpc = "spawn" /\ mpc' = "subscribe" /\ lpc' = "next")]_vars
    /\ [][(lpc /= "none") => (lpc' /= "none")]_vars
    /\ [][(mpc' /= mpc /\ lpc' /= lpc) => (lpc = "none")]_vars

\* main is between the subscribe and the greeting publish; the listener has
\* forwarded one message and taken its next event
C13_Witness ==
    /\ mpc = "publish"
    /\ ~published
    /\ Len(sentLog) = 1
    /\ lpc = "handle"
    /\ Len(evLog) = 2


\* C14. Relay receive outcomes: while the listener runs its Sender exists, and
\* a recv_timeout returning then returns a message when the channel holds one
\* and Err(Timeout) when it holds none; Err(Disconnected) is returned only
\* when the listener has terminated, its Sender is gone and the channel is
\* empty.
C14_ReceiveOutcomes ==
    /\ [](lpc \in {"next", "handle"} => senderAlive)
    /\ [][(mpc = "recv" /\ mpc' /= "recv" /\ lpc \in {"next", "handle"}) =>
            (IF relay = <<>>
             THEN cycleOps' = Append(cycleOps, "recv_timeout") /\ recvLog' = recvLog
             ELSE cycleOps' = Append(cycleOps, "recv_ok")
                  /\ recvLog' = Append(recvLog, Head(relay)))]_vars
    /\ [][(cycleOps' = Append(cycleOps, "recv_disconnected")) =>
            (lpc \in {"exit", "panicked"} /\ ~senderAlive /\ relay = <<>>)]_vars

\* the session has dropped and the listener, still handling an event, has not
\* left yet: main's poll of the empty channel returned a timeout
C14_Witness ==
    /\ conn = "closed"
    /\ lpc = "handle"
    /\ relay = <<>>
    /\ mpc = "sleep"
    /\ cycleOps = <<"recv_timeout">>

\* the calls of configure_wifi, in the order of its lines 128-140
WifiOrder == <<"set_configuration", "start", "connect", "wait_netif_up">>

\* the statements of main at which these calls are made
WifiPcs == <<"set_configuration", "wifi_start", "connect", "wait_netif_up">>

\* C15. Connectivity Supervisor: the calls made on the wifi driver are a
\* prefix of set_configuration, start, connect, wait_netif_up, each made at
\* most once; main standing at the k-th call has made the k-1 before it; when
\* a call has failed it is the last one made, main has returned its error, and
\* neither panel init nor channel, session or listener exists and no loop
\* iteration ran; whenever main is past configure_wifi all four were made.
C15_ConnectivitySupervisor ==
    /\ IsPrefix(wifiOps, WifiOrder)
    /\ \A k \in 1..4 : mpc = WifiPcs[k] => wifiOps = SubSeq(WifiOrder, 1, k - 1)
    /\ mpc = "start" => wifiOps = <<>>
    /\ \A k \in 1..4 :
          err = WifiOrder[k] =>
             /\ mpc = "aborted"
             /\ wifiOps = SubSeq(WifiOrder, 1, k)
             /\ calls = <<>>
             /\ conn = "none" /\ lpc = "none" /\ x509 = <<>>
             /\ ~receiverAlive /\ ~senderAlive
             /\ cycleOps = <<>>
    /\ (mpc \in {"spi", "epd_new", "channel", "mqtt_new", "spawn", "subscribe", "publish"}
                 \cup LoopPcs) => (wifiOps = WifiOrder /\ err = "none")
    /\ (calls /= <<>> \/ conn /= "none" \/ lpc /= "none" \/ cycleOps /= <<>>) =>
          wifiOps = WifiOrder

\* connect failed: wait_netif_up was not called and main has returned
C15_Witness ==
    /\ err = "connect"
    /\ mpc = "aborted"
    /\ wifiOps = <<"set_configuration", "start", "connect">>


\* C16. send never blocks: whenever the listener has taken an event its
\* handling, the send included, can be done at once, whatever the channel
\* holds and wherever main stands; and whenever it is at connection.next()
\* with an event of the open session pending it can take it.
C16_SendNeverBlocks ==
    /\ (lpc = "handle") => ENABLED ListenerHandle
    /\ (lpc = "next" /\ conn = "open" /\ nEvents < MaxEvents) => ENABLED ListenerNext
    /\ (lpc = "next" /\ conn = "open" /\ echo) => ENABLED NextGreeting

\* a message waits in the channel and main is inside display_frame while the
\* listener holds the next valid payload, about to send it
C16_Witness ==
    /\ lpc = "handle"
    /\ ev.kind = "Received"
    /\ Parse(ev.data).ok
    /\ receiverAlive
    /\ Len(relay) = 1
    /\ mpc = "display_frame"

\* the number of 'message received' events the listener has taken
NumReceived == Cardinality({k \in DOMAIN evLog : evLog[k].kind = "Received"})

\* C17. Non-message events: handling an error event or an event other than
\* Received sends nothing, leaves the channel and the Sender as they are and
\* takes the listener back to connection.next(); a send happens only in the
\* handling of a Received event and sends the decoded payload of that event,
\* so that there are never more sends than Received events taken.
C17_NonMessageEvents ==
    /\ [][(lpc = "handle" /\ lpc' /= lpc /\ ev.kind \in {"Err", "Other"}) =>
            (lpc' = "next" /\ UNCHANGED <<relay, fwdLog, sentLog, senderAlive>>)]_vars
    /\ [][(fwdLog' /= fwdLog \/ Len(relay') > Len(relay)) =>
            (/\ lpc = "handle"
             /\ ev.kind = "Received"
             /\ from_utf8(ev.data).ok
             /\ fwdLog' = Append(fwdLog, from_utf8(ev.data).val))]_vars
    /\ [](Len(fwdLog) <= NumReceived)

\* an error event and another event were handled, and then the greeting was
\* taken and forwarded
C17_Witness ==
    /\ evLog = <<EvErr, EvOther, EvReceived(GreetingBytes)>>
    /\ sentLog = <<GreetingText>>
    /\ relay = <<GreetingText>>
    /\ lpc = "next"

\* C18. The Receiver lives exactly as long as main holds it: from the
\* mpsc::channel call until main returns. A send fails only when it is gone,
\* a failed send is what makes the listener panic, and the listener has
\* panicked only when main has returned, from a failing subscribe or publish
\* or from a failing panel call of its loop: main never polls with the
\* listener dead of a failed send.
C18_ForwardFailure ==
    /\ receiverAlive <=> (mpc \in {"mqtt_new", "spawn", "subscribe", "publish"} \cup LoopPcs)
    /\ IsPrefix(sentLog, fwdLog)
    /\ Len(fwdLog) <= Len(sentLog) + 1
    /\ (fwdLog /= sentLog) <=> (lpc = "panicked")
    /\ (lpc = "panicked") =>
          /\ mpc = "aborted"
          /\ err \in {"subscribe", "publish", "update_frame", "display_frame"}
          /\ ~receiverAlive
    /\ (mpc \in LoopPcs) => (lpc \in {"next", "handle", "exit"})

\* the greeting publish failed while the listener held a valid payload: its
\* send found the Receiver gone
C18_Witness ==
    /\ lpc = "panicked"
    /\ err = "publish"
    /\ mpc = "aborted"
    /\ Len(fwdLog) = Len(sentLog) + 1


CycleOf(k) == ((k - 2) \div 4) + 1

\* C20. The framebuffer of a render cycle depends on its message alone: the
\* buffer handed to every update_frame is the drawing of the message received
\* for that cycle at (0,0) on an all-white framebuffer, main stands at
\* update_frame with exactly that in the framebuffer, and what a successful
\* update_frame leaves in the panel's memory, and a successful display_frame
\* on the panel, is that drawing, whatever was rendered before.
C20_FrameOfMessageAlone ==
    /\ \A k \in DOMAIN calls :
          calls[k].op = "update_frame" =>
             /\ CycleOf(k) \in DOMAIN recvLog
             /\ calls[k].buffer = draw_text(clear, recvLog[CycleOf(k)], 0, 0)
    /\ mpc = "update_frame" => display = draw_text(clear, message, 0, 0)
    /\ mpc = "display_frame" => epdRam = draw_text(clear, message, 0, 0)
    /\ shownLog /= <<>> =>
          epdImage = draw_text(clear, shownLog[Len(shownLog)], 0, 0)

\* after the greeting the empty message was rendered: the frame handed to
\* update_frame and the panel are all white
C20_Witness ==
    /\ shownLog = <<GreetingText, <<>> >>
    /\ Len(calls) = 9
    /\ calls[4].buffer = draw_text(clear, GreetingText, 0, 0)
    /\ calls[4].buffer /= clear
    /\ calls[8].buffer = clear
    /\ epdImage = clear

====
